---- MODULE Spec2Model ----
(***************************************************************************)
(* Model of UnusedStandaloneImportsRule                                    *)
(* (packages/compiler-cli/src/ngtsc/validation/src/rules/                  *)
(*  unused_standalone_imports_rule.ts).                                    *)
(*                                                                         *)
(* The rule is a stateless object configured once (typeCheckingConfig) and *)
(* then asked, per source file, shouldCheck(sourceFile) and, for the nodes *)
(* of a file it accepted, checkNode(node).  The syntax trees, the template *)
(* type checker and the imported-symbols tracker are external; they are    *)
(* modelled as a fixed pair of source files and as inputs of checkNode.    *)
(***************************************************************************)
EXTENDS Integers, Sequences, FiniteSets, TLC

(***************************************************************************)
(* Optional values.  `null` of a node-typed value is the node NullNode;    *)
(* `null` of any other value is the record Null, a present value v is      *)
(* Some(v).                                                                *)
(***************************************************************************)
Null == [isNull |-> TRUE]
Some(v) == [isNull |-> FALSE, value |-> v]
NullNode == "null"

Range(s) == {s[i] : i \in 1..Len(s)}

(* Longest imports array over the references of AllReferences *)
MaxImports == 1

SeqsUpTo(S, n) == UNION {[1..k -> S] : k \in 0..n}

(***************************************************************************)
(* The syntax trees.  component.ts holds the three components under        *)
(* analysis and the places an imported class can be spelled in; shared.ts  *)
(* is another file of the program.                                         *)
(*                                                                         *)
(*   // component.ts                                                       *)
(*   export const EXPORTED = [ExpId];                                      *)
(*   const LOCAL = [LocId];                                                *)
(*   export const make = () => { const INNER = [InId]; };                  *)
(*   function fromFn() { return [FnId]; }                                  *)
(*   @Component({imports: [LitId, LitId2, LitId3]}) class Cls1 {}          *)
(*   const routes = {component: () => {                                    *)
(*       @Component({imports}) class Cls2 {} }};                           *)
(*   @Component({imports}) class Cls3 {}                                   *)
(*   // shared.ts                                                          *)
(*   export const SHARED = [ExtId];                                        *)
(***************************************************************************)
Edges ==
  { <<"ExpVarStmt", "SF">>, <<"ExpDeclList", "ExpVarStmt">>, <<"ExpDecl", "ExpDeclList">>,
    <<"ExpArr", "ExpDecl">>, <<"ExpId", "ExpArr">>,
    <<"LocVarStmt", "SF">>, <<"LocDeclList", "LocVarStmt">>, <<"LocDecl", "LocDeclList">>,
    <<"LocArr", "LocDecl">>, <<"LocId", "LocArr">>,
    <<"OutVarStmt", "SF">>, <<"OutDeclList", "OutVarStmt">>, <<"OutDecl", "OutDeclList">>,
    <<"OutFn", "OutDecl">>, <<"OutBlock", "OutFn">>,
    <<"InVarStmt", "OutBlock">>, <<"InDeclList", "InVarStmt">>, <<"InDecl", "InDeclList">>,
    <<"InArr", "InDecl">>, <<"InId", "InArr">>,
    <<"FnDecl", "SF">>, <<"FnBlock", "FnDecl">>, <<"FnRet", "FnBlock">>,
    <<"FnArr", "FnRet">>, <<"FnId", "FnArr">>,
    <<"Cls1", "SF">>, <<"Dec1", "Cls1">>, <<"Call1", "Dec1">>, <<"Obj1", "Call1">>,
    <<"Prop1", "Obj1">>, <<"Prop1Key", "Prop1">>, <<"RawArr", "Prop1">>, <<"LitId", "RawArr">>,
    <<"LitId2", "RawArr">>, <<"LitId3", "RawArr">>,
    <<"RouteVarStmt", "SF">>, <<"RouteDeclList", "RouteVarStmt">>, <<"RouteDecl", "RouteDeclList">>,
    <<"RouteObj", "RouteDecl">>, <<"RouteProp", "RouteObj">>, <<"RoutePropKey", "RouteProp">>,
    <<"RouteFn", "RouteProp">>, <<"RouteBlock", "RouteFn">>,
    <<"Cls2", "RouteBlock">>, <<"Dec2", "Cls2">>, <<"Call2", "Dec2">>, <<"Obj2", "Call2">>,
    <<"Short2", "Obj2">>, <<"RawShort", "Short2">>,
    <<"Cls3", "SF">>, <<"Dec3", "Cls3">>, <<"Call3", "Dec3">>, <<"Obj3", "Call3">>,
    <<"Short3", "Obj3">>, <<"RawBare", "Short3">>,
    <<"ExtVarStmt", "SF2">>, <<"ExtDeclList", "ExtVarStmt">>, <<"ExtDecl", "ExtDeclList">>,
    <<"ExtArr", "ExtDecl">>, <<"ExtId", "ExtArr">> }

SourceFiles == {"SF", "SF2", "SF3", "SF4"}

Nodes == SourceFiles \cup {e[1] : e \in Edges}

(* ts.Node.parent; the parent of a source file is absent *)
Parent == [n \in Nodes |->
             IF \E e \in Edges : e[1] = n
               THEN (CHOOSE e \in Edges : e[1] = n)[2]
               ELSE NullNode]

(* ts.Node.kind, as tested by ts.isClassDeclaration, ts.isVariableStatement *)
(* and ts.isPropertyAssignment                                              *)
Kind == [n \in Nodes |->
           CASE n \in SourceFiles -> "SourceFile"
             [] n \in {"ExpVarStmt", "LocVarStmt", "OutVarStmt", "InVarStmt",
                       "RouteVarStmt", "ExtVarStmt"} -> "VariableStatement"
             [] n \in {"ExpDeclList", "LocDeclList", "OutDeclList", "InDeclList",
                       "RouteDeclList", "ExtDeclList"} -> "VariableDeclarationList"
             [] n \in {"ExpDecl", "LocDecl", "OutDecl", "InDecl",
                       "RouteDecl", "ExtDecl"} -> "VariableDeclaration"
             [] n \in {"ExpArr", "LocArr", "InArr", "FnArr", "RawArr", "ExtArr"}
                       -> "ArrayLiteralExpression"
             [] n \in {"OutFn", "RouteFn"} -> "ArrowFunction"
             [] n \in {"OutBlock", "FnBlock", "RouteBlock"} -> "Block"
             [] n = "FnDecl" -> "FunctionDeclaration"
             [] n = "FnRet" -> "ReturnStatement"
             [] n \in {"Cls1", "Cls2", "Cls3"} -> "ClassDeclaration"
             [] n \in {"Dec1", "Dec2", "Dec3"} -> "Decorator"
             [] n \in {"Call1", "Call2", "Call3"} -> "CallExpression"
             [] n \in {"Obj1", "Obj2", "Obj3", "RouteObj"} -> "ObjectLiteralExpression"
             [] n \in {"Prop1", "RouteProp"} -> "PropertyAssignment"
             [] n \in {"Short2", "Short3"} -> "ShorthandPropertyAssignment"
             [] OTHER -> "Identifier"]

(* ts.VariableStatement.modifiers, as the set of the modifiers' kinds *)
Modifiers == [n \in Nodes |->
                IF n \in {"ExpVarStmt", "OutVarStmt", "ExtVarStmt"}
                  THEN {"ExportKeyword"}
                  ELSE {}]

(* ts.PropertyAssignment.name: the key node of a property assignment *)
PropertyName == [n \in Nodes |->
                   CASE n = "Prop1" -> "Prop1Key"
                     [] n = "RouteProp" -> "RoutePropKey"
                     [] OTHER -> NullNode]

(* The text of a property key *)
KeyText == [n \in Nodes |->
              CASE n = "Prop1Key" -> "imports"
                [] n = "RoutePropKey" -> "component"
                [] OTHER -> ""]

(* ts.Node.getSourceFile() *)
RECURSIVE getSourceFile(_)
getSourceFile(n) == IF Kind[n] = "SourceFile" THEN n ELSE getSourceFile(Parent[n])

(* n lies inside the expression expr (expr itself included) *)
RECURSIVE Within(_, _)
Within(n, expr) ==
  IF n = NullNode THEN FALSE
  ELSE IF n = expr THEN TRUE
  ELSE Within(Parent[n], expr)

(***************************************************************************)
(* The classes an imports array can refer to, with what the template type  *)
(* checker knows about each.                                               *)
(***************************************************************************)
Classes == {"DirS", "DirT", "DirN", "PipeS", "PipeN", "Plain", "Both"}

(* templateTypeChecker.getDirectiveMetadata(currentNode) *)
getDirectiveMetadata(c) ==
  CASE c = "DirS" -> Some([isStandalone |-> TRUE])
    [] c = "DirT" -> Some([isStandalone |-> TRUE])
    [] c = "DirN" -> Some([isStandalone |-> FALSE])
    [] c = "Both" -> Some([isStandalone |-> FALSE])
    [] OTHER -> Null

(* templateTypeChecker.getPipeMetadata(currentNode) *)
getPipeMetadata(c) ==
  CASE c = "PipeS" -> Some([isStandalone |-> TRUE, name |-> "p"])
    [] c = "PipeN" -> Some([isStandalone |-> FALSE, name |-> "q"])
    [] c = "Both" -> Some([isStandalone |-> TRUE, name |-> "b"])
    [] OTHER -> Null

(* ref.node.name: the identifier of the class declaration itself *)
ClassNameNode(c) ==
  CASE c = "DirS" -> "DirS.name"
    [] c = "DirT" -> "DirT.name"
    [] c = "DirN" -> "DirN.name"
    [] c = "PipeS" -> "PipeS.name"
    [] c = "PipeN" -> "PipeN.name"
    [] c = "Plain" -> "Plain.name"
    [] OTHER -> "Both.name"

(***************************************************************************)
(* Reference: the class it points to and the identifiers by which the      *)
(* class was reached.                                                      *)
(***************************************************************************)
Identifiers == {"LitId", "ExpId", "LocId", "InId", "FnId", "ExtId"}

(* Reference.getIdentityIn(context): the first identifier in that file *)
RECURSIVE FirstIn(_, _, _)
FirstIn(ids, i, context) ==
  IF i > Len(ids) THEN NullNode
  ELSE IF getSourceFile(ids[i]) = context THEN ids[i]
  ELSE FirstIn(ids, i + 1, context)

getIdentityIn(reference, context) == FirstIn(reference.identifiers, 1, context)

(* Reference.getIdentityInExpression(expr): the first identifier in the *)
(* file of expr that lies inside expr                                   *)
RECURSIVE FirstInExpression(_, _, _)
FirstInExpression(ids, i, expr) ==
  IF i > Len(ids) THEN NullNode
  ELSE IF getSourceFile(ids[i]) = getSourceFile(expr) /\ Within(ids[i], expr) THEN ids[i]
  ELSE FirstInExpression(ids, i + 1, expr)

getIdentityInExpression(reference, expr) ==
  FirstInExpression(reference.identifiers, 1, expr)

(* Reference.getOriginForDiagnostics(container, fallback) *)
getOriginForDiagnostics(reference, container, fallback) ==
  LET id == getIdentityInExpression(reference, container)
  IN IF id # NullNode THEN id ELSE fallback

(***************************************************************************)
(* ImportedSymbolsTracker: the import declarations of each file.           *)
(***************************************************************************)
NamedImports == [f \in SourceFiles |->
                   CASE f = "SF" -> {<<"Component", "@angular/core">>}
                     [] f = "SF2" -> {<<"Directive", "@angular/core">>, <<"Component", "other-lib">>}
                     [] f = "SF3" -> {}
                     [] OTHER -> {<<"Component", "@angular/core">>}]

NamespaceImports == [f \in SourceFiles |->
                       CASE f = "SF" -> {}
                         [] f = "SF2" -> {"other-lib"}
                         [] f = "SF3" -> {"@angular/core"}
                         [] OTHER -> {"@angular/core"}]

hasNamedImport(sf, exportedName, moduleName) == <<exportedName, moduleName>> \in NamedImports[sf]

hasNamespaceImport(sf, moduleName) == moduleName \in NamespaceImports[sf]

(***************************************************************************)
(* Diagnostics.                                                            *)
(***************************************************************************)
makeRelatedInformation(n, messageText) == [node |-> n, messageText |-> messageText]

(* An omitted relatedInfo argument is the empty sequence *)
makeDiagnostic(code, n, messageText, relatedInfo, category) ==
  [code |-> code, node |-> n, messageText |-> messageText,
   relatedInformation |-> relatedInfo, category |-> category]

(***************************************************************************)
(* The rule.                                                               *)
(***************************************************************************)
VARIABLES
  config,             \* typeCheckingConfig.unusedStandaloneImports
  pc,                 \* "idle", "gated" (shouldCheck returned), "done" (checkNode returned)
  sourceFile,         \* the argument of shouldCheck
  shouldCheckResult,  \* what shouldCheck returned
  node,               \* the argument of checkNode
  metadata,           \* getDirectiveMetadata(node)
  usedDirectives,     \* getUsedDirectives(node)
  usedPipes,          \* getUsedPipes(node)
  unused,             \* the local `unused` of checkNode
  diagnostic          \* what checkNode returned

vars == <<config, pc, sourceFile, shouldCheckResult, node, metadata,
          usedDirectives, usedPipes, unused, diagnostic>>

Configs == {"suppress", "warn", "error"}

(* Variant: a namespace import of the core module is not recognised *)
shouldCheck_NamedOnly(cfg, sf) ==
  /\ cfg # "suppress"
  /\ hasNamedImport(sf, "Component", "@angular/core")

shouldCheck(cfg, sf) ==
  /\ cfg # "suppress"
  /\ \/ hasNamedImport(sf, "Component", "@angular/core")
     \/ hasNamespaceImport(sf, "@angular/core")

(* Variant: any enclosing variable statement counts as shared *)
RECURSIVE WalkToVariableStatement_AnyStatement(_)
WalkToVariableStatement_AnyStatement(current) ==
  IF current = NullNode THEN TRUE
  ELSE IF Kind[current] = "VariableStatement" THEN TRUE
  ELSE WalkToVariableStatement_AnyStatement(Parent[current])

(* Variant: a walk that ends at the root counts as not shared *)
RECURSIVE WalkToVariableStatement_RootLocal(_)
WalkToVariableStatement_RootLocal(current) ==
  IF current = NullNode THEN FALSE
  ELSE IF Kind[current] = "VariableStatement" THEN "ExportKeyword" \in Modifiers[current]
  ELSE WalkToVariableStatement_RootLocal(Parent[current])

RECURSIVE WalkToVariableStatement(_)
WalkToVariableStatement(current) ==
  IF current = NullNode THEN TRUE
  ELSE IF Kind[current] = "VariableStatement" THEN "ExportKeyword" \in Modifiers[current]
  ELSE WalkToVariableStatement(Parent[current])

(* Variant: the identity inside the imports expression is not consulted *)
isPotentialSharedReference_NoLiteralCheck(reference, rawImports) ==
  WalkToVariableStatement(getIdentityIn(reference, getSourceFile(rawImports)))

isPotentialSharedReference(reference, rawImports) ==
  IF getIdentityInExpression(reference, rawImports) # NullNode THEN FALSE
  ELSE WalkToVariableStatement(getIdentityIn(reference, getSourceFile(rawImports)))

RECURSIVE WalkToPropertyAssignment(_, _)
WalkToPropertyAssignment(current, importsExpression) ==
  IF current = NullNode THEN importsExpression
  ELSE IF Kind[current] = "PropertyAssignment" THEN PropertyName[current]
  ELSE WalkToPropertyAssignment(Parent[current], importsExpression)

getDiagnosticNode(importsExpression) ==
  WalkToPropertyAssignment(Parent[importsExpression], importsExpression)

(* Variant: without the `continue`, a directive that is not flagged is *)
(* looked at again as a pipe                                           *)
IsFlagged_NoContinue(current, rawImports, usedDirSet, usedPipeSet) ==
  LET dirMeta == getDirectiveMetadata(current.node)
      pipeMeta == getPipeMetadata(current.node)
  IN \/ /\ ~dirMeta.isNull
        /\ dirMeta.value.isStandalone
        /\ current.node \notin usedDirSet
        /\ ~isPotentialSharedReference(current, rawImports)
     \/ /\ ~pipeMeta.isNull
        /\ pipeMeta.value.isStandalone
        /\ pipeMeta.value.name \notin usedPipeSet
        /\ ~isPotentialSharedReference(current, rawImports)

(* One iteration of the loop of getUnusedSymbols: is `current` pushed? *)
IsFlagged(current, rawImports, usedDirSet, usedPipeSet) ==
  LET dirMeta == getDirectiveMetadata(current.node)
      pipeMeta == getPipeMetadata(current.node)
  IN IF ~dirMeta.isNull
       THEN /\ dirMeta.value.isStandalone
            /\ current.node \notin usedDirSet
            /\ ~isPotentialSharedReference(current, rawImports)
       ELSE /\ ~pipeMeta.isNull
            /\ pipeMeta.value.isStandalone
            /\ pipeMeta.value.name \notin usedPipeSet
            /\ ~isPotentialSharedReference(current, rawImports)

(* unused ??= []; unused.push(current) *)
Push(acc, current) == IF acc.isNull THEN Some(<<current>>) ELSE Some(Append(acc.value, current))

RECURSIVE UnusedLoop(_, _, _, _, _, _)
UnusedLoop(imports, i, rawImports, usedDirSet, usedPipeSet, acc) ==
  IF i > Len(imports) THEN acc
  ELSE UnusedLoop(imports, i + 1, rawImports, usedDirSet, usedPipeSet,
                  IF IsFlagged(imports[i], rawImports, usedDirSet, usedPipeSet)
                    THEN Push(acc, imports[i])
                    ELSE acc)

(* Variant: `unused` starts as an empty array instead of null *)
getUnusedSymbols_EmptyStart(meta, usedDirSet, usedPipeSet) ==
  IF meta.imports.isNull \/ meta.rawImports = NullNode THEN Null
  ELSE UnusedLoop(meta.imports.value, 1, meta.rawImports, usedDirSet, usedPipeSet, Some(<<>>))

getUnusedSymbols(meta, usedDirSet, usedPipeSet) ==
  IF meta.imports.isNull \/ meta.rawImports = NullNode THEN Null
  ELSE UnusedLoop(meta.imports.value, 1, meta.rawImports, usedDirSet, usedPipeSet, Null)

(* Variant: the component's own standalone flag is not tested *)
PassesPreconditions_NoStandalone(n, meta, usedDirs, usedPs) ==
  /\ Kind[n] = "ClassDeclaration"
  /\ ~meta.isNull
  /\ meta.value.rawImports # NullNode
  /\ ~meta.value.imports.isNull
  /\ Len(meta.value.imports.value) # 0
  /\ ~usedDirs.isNull
  /\ ~usedPs.isNull

(* Do the early returns of checkNode (lines 41-63) let the node through? *)
PassesPreconditions(n, meta, usedDirs, usedPs) ==
  /\ Kind[n] = "ClassDeclaration"
  /\ ~meta.isNull
  /\ meta.value.isStandalone
  /\ meta.value.rawImports # NullNode
  /\ ~meta.value.imports.isNull
  /\ Len(meta.value.imports.value) # 0
  /\ ~usedDirs.isNull
  /\ ~usedPs.isNull

Category(cfg) == IF cfg = "error" THEN "Error" ELSE "Warning"

(* Variant: the related entries are listed last to first *)
RelatedInformation_Reversed(unusedRefs, rawImports) ==
  [i \in 1..Len(unusedRefs) |->
     makeRelatedInformation(
       getOriginForDiagnostics(unusedRefs[Len(unusedRefs) + 1 - i], rawImports,
                               ClassNameNode(unusedRefs[Len(unusedRefs) + 1 - i].node)),
       "")]

RelatedInformation(unusedRefs, rawImports) ==
  [i \in 1..Len(unusedRefs) |->
     makeRelatedInformation(
       getOriginForDiagnostics(unusedRefs[i], rawImports, ClassNameNode(unusedRefs[i].node)),
       "")]

(* Variant: the "all unused" diagnostic is made without the category *)
(* argument and gets makeDiagnostic's default, Error                  *)
BuildDiagnostic_DefaultCategory(cfg, meta, unusedRefs) ==
  IF Len(unusedRefs) = Len(meta.imports.value)
    THEN makeDiagnostic("UNUSED_STANDALONE_IMPORTS", getDiagnosticNode(meta.rawImports),
                        "All imports are unused", <<>>, "Error")
    ELSE makeDiagnostic("UNUSED_STANDALONE_IMPORTS", getDiagnosticNode(meta.rawImports),
                        "Imports array contains unused imports",
                        RelatedInformation(unusedRefs, meta.rawImports), Category(cfg))

BuildDiagnostic(cfg, meta, unusedRefs) ==
  IF Len(unusedRefs) = Len(meta.imports.value)
    THEN makeDiagnostic("UNUSED_STANDALONE_IMPORTS", getDiagnosticNode(meta.rawImports),
                        "All imports are unused", <<>>, Category(cfg))
    ELSE makeDiagnostic("UNUSED_STANDALONE_IMPORTS", getDiagnosticNode(meta.rawImports),
                        "Imports array contains unused imports",
                        RelatedInformation(unusedRefs, meta.rawImports), Category(cfg))

(* The value of the local `unused` when checkNode returns *)
UnusedOf(n, meta, usedDirs, usedPs) ==
  IF PassesPreconditions(n, meta, usedDirs, usedPs)
    THEN getUnusedSymbols(meta.value,
                          {usedDirs.value[i].ref.node : i \in 1..Len(usedDirs.value)},
                          Range(usedPs.value))
    ELSE Null

checkNode(cfg, n, meta, usedDirs, usedPs) ==
  LET u == UnusedOf(n, meta, usedDirs, usedPs)
  IN IF u.isNull THEN Null ELSE Some(BuildDiagnostic(cfg, meta.value, u.value))

(***************************************************************************)
(* Inputs of checkNode.                                                    *)
(***************************************************************************)
ComponentClasses == {"Cls1", "Cls2", "Cls3"}

(* The initializer of the `imports` property of the component decorator *)
RawImportsOf(n) ==
  CASE n = "Cls1" -> "RawArr"
    [] n = "Cls2" -> "RawShort"
    [] n = "Cls3" -> "RawBare"
    [] OTHER -> NullNode

(* The identifiers a reference found through the imports expression raw   *)
(* can carry: an identifier of the array literal only for that array      *)
(* literal, where the class may also have been met in the exported array  *)
IdentifierLists(raw) ==
  {<<id>> : id \in {i \in Identifiers : i = "LitId" => raw = "RawArr"}}
  \cup (IF raw = "RawArr" THEN {<<"ExpId", "LitId">>} ELSE {})

References(raw, classes, idLists) ==
  {[node |-> c, identifiers |-> ids] : c \in classes, ids \in idLists}

Dir(c) == [ref |-> [node |-> c]]

UsedDirectiveLists == {<<>>, <<Dir("DirS")>>}
UsedPipeLists == {<<>>, <<"p">>}

(* Longest imports array of the inputs that fail a precondition *)
ProbeImports == 1

(* Longest imports array over the references of LongReferences *)
MaxLong == 3

(* Every class, spelled in every place *)
AllReferences(raw) == References(raw, Classes, IdentifierLists(raw))

(* The place a class is spelled in when the component lists it itself: *)
(* an element of the array literal, or of the local constant            *)
OwnIdentifier(raw, c) ==
  IF raw # "RawArr" THEN "LocId"
  ELSE CASE c = "DirT" -> "LitId"
         [] c = "DirS" -> "LitId2"
         [] OTHER -> "LitId3"

(* A few references: listed by the component itself, or met in the *)
(* exported array                                                  *)
LongReferences(raw) ==
  {[node |-> c, identifiers |-> <<OwnIdentifier(raw, c)>>] :
     c \in {"DirT", "DirS", "PipeS", "DirN", "Plain"}}
  \cup References(raw, {"DirS", "DirT", "PipeS"}, {<<"ExpId">>})

(* Metadata of component n with any part present or absent *)
Metadatas(n, refs, maxLen) ==
  {[isStandalone |-> st, rawImports |-> raw, imports |-> imps] :
     st \in BOOLEAN,
     raw \in {RawImportsOf(n), NullNode},
     imps \in {Null} \cup {Some(l) : l \in SeqsUpTo(refs, maxLen)}}

(* Metadata of a standalone component n with an imports array *)
AnalysableMetadatas(n, refs, maxLen) ==
  {[isStandalone |-> TRUE, rawImports |-> RawImportsOf(n), imports |-> Some(l)] :
     l \in SeqsUpTo(refs, maxLen)}

Init ==
  /\ config \in Configs
  /\ pc = "idle"
  /\ sourceFile = NullNode
  /\ shouldCheckResult = FALSE
  /\ node = NullNode
  /\ metadata = Null
  /\ usedDirectives = Null
  /\ usedPipes = Null
  /\ unused = Null
  /\ diagnostic = Null

(* The validator asks the rule whether a file is to be scanned *)
ShouldCheck ==
  /\ pc = "idle"
  /\ \E sf \in SourceFiles :
       /\ sourceFile' = sf
       /\ shouldCheckResult' = shouldCheck(config, sf)
  /\ pc' = "gated"
  /\ UNCHANGED <<config, node, metadata, usedDirectives, usedPipes, unused, diagnostic>>

(* The validator visits the nodes of a file only if shouldCheck accepted it *)
Visiting == pc = "gated" /\ shouldCheckResult

(* The validator hands a node of the accepted file to the rule *)
CheckNode(n, meta, usedDirs, usedPs) ==
  /\ getSourceFile(n) = sourceFile
  /\ node' = n
  /\ metadata' = meta
  /\ usedDirectives' = usedDirs
  /\ usedPipes' = usedPs
  /\ unused' = UnusedOf(n, meta, usedDirs, usedPs)
  /\ diagnostic' = checkNode(config, n, meta, usedDirs, usedPs)
  /\ pc' = "done"
  /\ UNCHANGED <<config, sourceFile, shouldCheckResult>>

(* a node that is not a component: no metadata *)
CheckOther ==
  /\ Visiting
  /\ \E n \in Nodes \ SourceFiles : CheckNode(n, Null, Null, Null)

(* a component with any part of its metadata or usage present or absent *)
CheckPartial ==
  /\ Visiting
  /\ \E n \in ComponentClasses :
       \E m \in Metadatas(n, LongReferences(RawImportsOf(n)), ProbeImports) :
         \E ud \in {Null} \cup {Some(l) : l \in UsedDirectiveLists} :
           \E up \in {Null} \cup {Some(l) : l \in UsedPipeLists} :
             CheckNode(n, Some(m), ud, up)

(* a component that passes the early returns (or has an empty imports *)
(* array), importing any class spelled in any place                   *)
CheckComponent ==
  /\ Visiting
  /\ \E n \in ComponentClasses :
       \E m \in AnalysableMetadatas(n, AllReferences(RawImportsOf(n)), MaxImports) :
         \E ud \in UsedDirectiveLists :
           \E up \in UsedPipeLists :
             CheckNode(n, Some(m), Some(ud), Some(up))

(* the same with a longer imports array over the references of LongReferences *)
CheckLong ==
  /\ Visiting
  /\ \E n \in ComponentClasses :
       \E m \in AnalysableMetadatas(n, LongReferences(RawImportsOf(n)), MaxLong) :
         \E ud \in UsedDirectiveLists :
           \E up \in UsedPipeLists :
             CheckNode(n, Some(m), Some(ud), Some(up))

Next == ShouldCheck \/ CheckOther \/ CheckPartial \/ CheckComponent \/ CheckLong

Spec == Init /\ [][Next]_vars

(***************************************************************************)
(* Properties.                                                             *)
(***************************************************************************)

(* checkNode has returned for a component that passed every early return *)
Analysed == pc = "done" /\ PassesPreconditions(node, metadata, usedDirectives, usedPipes)

Imports == metadata.value.imports.value
Raw == metadata.value.rawImports
UsedDirSet == {usedDirectives.value[i].ref.node : i \in 1..Len(usedDirectives.value)}
UsedPipeSet == Range(usedPipes.value)

InUnused(r) == ~unused.isNull /\ r \in Range(unused.value)

(* r is written as an element inside the expression expr *)
SpelledIn(r, expr) == \E i \in 1..Len(r.identifiers) : Within(r.identifiers[i], expr)

(* r is a standalone directive the template does not use, or is no        *)
(* directive and a standalone pipe whose name the template does not use   *)
TemplateUnusedStandalone(r) ==
  LET d == getDirectiveMetadata(r.node)
      p == getPipeMetadata(r.node)
  IN \/ ~d.isNull /\ d.value.isStandalone /\ r.node \notin UsedDirSet
     \/ d.isNull /\ ~p.isNull /\ p.value.isStandalone /\ p.value.name \notin UsedPipeSet

ShouldBeFlagged(r) == TemplateUnusedStandalone(r) /\ ~isPotentialSharedReference(r, Raw)

FlaggedInOrder == SelectSeq(Imports, ShouldBeFlagged)

(* The variable statements around n, and the innermost of them *)
EnclosingVariableStatements(n) ==
  {v \in Nodes : Kind[v] = "VariableStatement" /\ Within(n, v)}

Innermost(n) ==
  CHOOSE v \in EnclosingVariableStatements(n) :
    \A w \in EnclosingVariableStatements(n) : Within(v, w)

(* C1: a declared import of an analysed component is in the unused result *)
(* exactly if it is a standalone, template-unused directive (by identity) *)
(* or, having no directive metadata, a standalone, template-unused pipe   *)
(* (by name), and is not potentially shared.                              *)
C1_FlaggedIff ==
  Analysed =>
    \A i \in 1..Len(Imports) :
      LET r == Imports[i]
          d == getDirectiveMetadata(r.node)
          p == getPipeMetadata(r.node)
      IN /\ InUnused(r) <=>
              /\ ~isPotentialSharedReference(r, Raw)
              /\ \/ ~d.isNull /\ d.value.isStandalone /\ r.node \notin UsedDirSet
                 \/ d.isNull /\ ~p.isNull /\ p.value.isStandalone
                      /\ p.value.name \notin UsedPipeSet
         /\ (d.isNull /\ p.isNull) => ~InUnused(r)
         /\ (~d.isNull /\ ~d.value.isStandalone) => ~InUnused(r)

C1_Witness ==
  /\ Analysed
  /\ Len(Imports) = 3
  /\ Imports[1].node = "DirN" /\ ~InUnused(Imports[1])
  /\ Imports[2].node = "Plain" /\ ~InUnused(Imports[2])
  /\ Imports[3].node = "PipeS" /\ InUnused(Imports[3])

(* a class with non-standalone directive metadata and the metadata of a *)
(* standalone, unused pipe, written in the array itself                 *)
C1_WitnessBoth ==
  /\ Analysed
  /\ Imports = <<[node |-> "Both", identifiers |-> <<"LitId">>]>>
  /\ unused.isNull

(* C2: a reference spelled inside the raw imports expression is never     *)
(* potentially shared, and is flagged whenever it is a standalone         *)
(* directive or pipe the template does not use.                           *)
C2_LiteralNeverShared ==
  Analysed =>
    \A i \in 1..Len(Imports) :
      SpelledIn(Imports[i], Raw) =>
        /\ ~isPotentialSharedReference(Imports[i], Raw)
        /\ TemplateUnusedStandalone(Imports[i]) => InUnused(Imports[i])

C2_Witness ==
  /\ Analysed
  /\ \E i \in 1..Len(Imports) :
       /\ Imports[i] = [node |-> "DirS", identifiers |-> <<"ExpId", "LitId">>]
       /\ InUnused(Imports[i])

(* C3: for a reference not spelled in the raw imports expression whose    *)
(* site in the file lies in a variable statement, the innermost such      *)
(* statement decides: shared exactly if it is exported; a template-unused *)
(* standalone reference is then flagged exactly if it is not exported.    *)
C3_InnermostDeclarationDecides ==
  Analysed =>
    \A i \in 1..Len(Imports) :
      LET r == Imports[i]
          site == getIdentityIn(r, getSourceFile(Raw))
      IN (~SpelledIn(r, Raw) /\ site # NullNode /\ EnclosingVariableStatements(site) # {}) =>
           /\ isPotentialSharedReference(r, Raw)
                <=> "ExportKeyword" \in Modifiers[Innermost(site)]
           /\ TemplateUnusedStandalone(r) =>
                (InUnused(r) <=> "ExportKeyword" \notin Modifiers[Innermost(site)])

C3_Witness ==
  /\ Analysed
  /\ Imports = <<[node |-> "DirS", identifiers |-> <<"InId">>]>>
  /\ EnclosingVariableStatements("InId") = {"InVarStmt", "OutVarStmt"}
  /\ InUnused(Imports[1])

C3_WitnessExported ==
  /\ Analysed
  /\ Imports = <<[node |-> "PipeS", identifiers |-> <<"ExpId">>]>>
  /\ TemplateUnusedStandalone(Imports[1])
  /\ unused.isNull

(* C4: a reference not spelled in the raw imports expression that has no  *)
(* site in the file, or whose site lies in no variable statement, is      *)
(* shared and never flagged.                                              *)
C4_NoDeclarationMeansShared ==
  Analysed =>
    \A i \in 1..Len(Imports) :
      LET r == Imports[i]
          site == getIdentityIn(r, getSourceFile(Raw))
      IN (~SpelledIn(r, Raw) /\ (site = NullNode \/ EnclosingVariableStatements(site) = {})) =>
           /\ isPotentialSharedReference(r, Raw)
           /\ ~InUnused(r)

C4_Witness ==
  /\ Analysed
  /\ Imports = <<[node |-> "DirS", identifiers |-> <<"FnId">>]>>
  /\ TemplateUnusedStandalone(Imports[1])
  /\ unused.isNull

C4_WitnessOtherFile ==
  /\ Analysed
  /\ Imports = <<[node |-> "PipeS", identifiers |-> <<"ExtId">>]>>
  /\ TemplateUnusedStandalone(Imports[1])
  /\ unused.isNull

(* C5: a non-null unused result gives one diagnostic: "All imports are    *)
(* unused" without related entries if every declared import is unused,    *)
(* else "Imports array contains unused imports" with one related entry    *)
(* per unused reference, in declaration order, each with an empty message.*)
C5_DiagnosticShape ==
  (pc = "done" /\ ~unused.isNull) =>
    /\ ~diagnostic.isNull
    /\ LET d == diagnostic.value
           u == unused.value
       IN IF Len(u) = Len(Imports)
            THEN /\ d.messageText = "All imports are unused"
                 /\ d.relatedInformation = <<>>
            ELSE /\ d.messageText = "Imports array contains unused imports"
                 /\ Len(d.relatedInformation) = Len(u)
                 /\ Len(FlaggedInOrder) = Len(u)
                 /\ \A k \in 1..Len(u) :
                      /\ d.relatedInformation[k].messageText = ""
                      /\ d.relatedInformation[k].node =
                           getOriginForDiagnostics(FlaggedInOrder[k], Raw,
                                                   ClassNameNode(FlaggedInOrder[k].node))

(* imports [DirT, DirS, PipeS] with only DirS used *)
C5_Witness ==
  /\ pc = "done"
  /\ ~diagnostic.isNull
  /\ Len(Imports) = 3
  /\ Imports[1].node = "DirT" /\ Imports[2].node = "DirS" /\ Imports[3].node = "PipeS"
  /\ UsedDirSet = {"DirS"}
  /\ diagnostic.value.messageText = "Imports array contains unused imports"
  /\ Len(diagnostic.value.relatedInformation) = 2
  /\ diagnostic.value.relatedInformation[1].node = "LitId"
  /\ diagnostic.value.relatedInformation[2].node = "LitId3"

(* C6: checkNode returns no diagnostic whenever a precondition is unmet.  *)
C6_UnmetPreconditionNoDiagnostic ==
  pc = "done" =>
    ((\/ Kind[node] # "ClassDeclaration"
      \/ metadata.isNull
      \/ ~metadata.value.isStandalone
      \/ metadata.value.rawImports = NullNode
      \/ metadata.value.imports.isNull
      \/ metadata.value.imports.value = <<>>
      \/ usedDirectives.isNull
      \/ usedPipes.isNull)
     => diagnostic.isNull)

(* the used sets are undetermined although an import would be flagged *)
C6_Witness ==
  /\ pc = "done"
  /\ Kind[node] = "ClassDeclaration"
  /\ ~metadata.isNull
  /\ metadata.value.isStandalone
  /\ metadata.value.rawImports = "RawArr"
  /\ metadata.value.imports = Some(<<[node |-> "DirT", identifiers |-> <<"LitId">>]>>)
  /\ usedDirectives.isNull
  /\ ~usedPipes.isNull
  /\ diagnostic.isNull

(* The anchor the specification describes: the key of the nearest         *)
(* enclosing property assignment whose key is "imports", else the         *)
(* expression itself                                                      *)
RECURSIVE ImportsKeyAbove(_, _)
ImportsKeyAbove(current, expr) ==
  IF current = NullNode THEN expr
  ELSE IF Kind[current] = "PropertyAssignment" /\ KeyText[PropertyName[current]] = "imports"
    THEN PropertyName[current]
  ELSE ImportsKeyAbove(Parent[current], expr)

(* C7: the diagnostic is anchored at the key of the enclosing property    *)
(* assignment named "imports", property assignments with another key are  *)
(* passed over, and without such an ancestor the anchor is the raw        *)
(* imports expression.                                                    *)
C7_AnchorIsImportsKey ==
  (pc = "done" /\ ~diagnostic.isNull) =>
    diagnostic.value.node = ImportsKeyAbove(Parent[Raw], Raw)

(* C8: shouldCheck is true exactly if the configuration is not "suppress" *)
(* and the file imports Component from @angular/core by name or imports   *)
(* @angular/core as a namespace.                                          *)
C8_ShouldCheckIff ==
  pc # "idle" =>
    /\ shouldCheckResult <=>
         /\ config # "suppress"
         /\ \/ <<"Component", "@angular/core">> \in NamedImports[sourceFile]
            \/ "@angular/core" \in NamespaceImports[sourceFile]
    /\ config = "suppress" => ~shouldCheckResult

C8_Witness ==
  /\ pc = "gated"
  /\ config = "warn"
  /\ sourceFile = "SF3"
  /\ shouldCheckResult

(* C9: a diagnostic is an error under configuration "error" and a warning *)
(* otherwise, for both messages and whatever is unused.                   *)
C9_SeverityByConfiguration ==
  (pc = "done" /\ ~diagnostic.isNull) =>
    /\ diagnostic.value.category \in {"Warning", "Error"}
    /\ diagnostic.value.category = "Error" <=> config = "error"
    /\ diagnostic.value.category = "Warning" <=> config # "error"

C9_Witness ==
  /\ pc = "done"
  /\ config = "warn"
  /\ ~diagnostic.isNull
  /\ diagnostic.value.messageText = "All imports are unused"
  /\ diagnostic.value.category = "Warning"

(* C10: the unused result is null exactly if no import is flagged, else   *)
(* the non-empty sequence of the flagged imports in declaration order,    *)
(* once per occurrence; checkNode returns a diagnostic exactly if it is   *)
(* non-null.                                                              *)
C10_UnusedResult ==
  pc = "done" =>
    /\ diagnostic.isNull <=> unused.isNull
    /\ ~unused.isNull => unused.value # <<>>
    /\ Analysed =>
         /\ unused.isNull <=> FlaggedInOrder = <<>>
         /\ ~unused.isNull => unused.value = FlaggedInOrder

(* the same reference declared twice around one that is used *)
C10_Witness ==
  /\ Analysed
  /\ Len(Imports) = 3
  /\ Imports[1] = Imports[3]
  /\ Imports[1] # Imports[2]
  /\ ~unused.isNull
  /\ unused.value = <<Imports[1], Imports[3]>>

====
